---- MODULE Spec2Model ----
(***************************************************************************)
(* Bring-up of the multi-process server (src/primary/init.c).  Every       *)
(* process runs init(); rte_eal_process_type() decides at each shared      *)
(* resource whether the process creates it (primary) or looks it up        *)
(* (secondary).  The processes share nothing but the named memzone, the    *)
(* named mempool and the named rings, so init() is cut into one step per   *)
(* access to that shared state and the steps of different processes        *)
(* interleave freely.                                                      *)
(***************************************************************************)
EXTENDS Integers, Sequences, FiniteSets, TLC

\* ---------------------------------------------------------------- bounds
NumProcs == 2
MaxClients == 2
MaxPorts == 2

Procs == 1..NumProcs

\* ------------------------------------------------------------- constants
NULL == [kind |-> "NULL"]
UNINIT == [kind |-> "UNINIT"]

MZ_PORT_INFO == "MProc_port_info"
PKTMBUF_POOL_NAME == "MProc_pktmbuf_pool"

\* rte_eth_dev_count(): the same hardware for every process
total_ports == MaxPorts

PortIdx == 0..(MaxPorts - 1)

\* struct port_info after memset(mz->addr, 0, sizeof(*ports))
ZeroTable == [num_ports |-> 0, id |-> [k \in PortIdx |-> 0]]

\* contents of a freshly reserved region before the memset: not specified
GarbageTable == [num_ports |-> MaxPorts, id |-> [k \in PortIdx |-> MaxPorts - 1]]

VARIABLES
    pc,            \* position of each process inside init()
    status,        \* "running", "ok" (return 0), "error" (return -1), "fatal" (rte_exit)
    role,          \* rte_eal_process_type(), "NONE" before rte_eal_init
    ports,         \* struct port_info *ports: NULL or the memzone it points into
    num_clients,   \* the process's own num_clients
    pktmbuf_pool,  \* static struct rte_mempool *pktmbuf_pool
    clients,       \* struct client *clients: NULL or the array of rx_q handles
    count,         \* loop variable of the port loop
    i,             \* loop variable of the ring loop
    link_checked,  \* check_all_ports_link_status has been called
    memzones,      \* named memzones that exist
    port_table,    \* contents of the MZ_PORT_INFO region
    mempools,      \* named mempools that exist
    rings,         \* named rings that exist
    hw_ports,      \* ports configured by init_port
    published,     \* the table the primary's argument parsing wrote, NULL before
    after_primary  \* the process called init() after a primary had returned 0

local == <<pc, status, role, ports, num_clients, pktmbuf_pool,
           clients, count, i, link_checked>>
shared == <<memzones, port_table, mempools, rings, hw_ports>>
hist == <<published, after_primary>>
vars == <<local, shared, hist>>

\* ------------------------------------------------- named shared resources
\* rte_memzone_lookup / rte_mempool_lookup / rte_ring_lookup
Lookup(set, name) ==
    IF \E r \in set : r.name = name
    THEN CHOOSE r \in set : r.name = name
    ELSE NULL

Exists(set, name) == \E r \in set : r.name = name

\* get_rx_queue_name(i): the ring name derived from the client index
get_rx_queue_name(id) == <<"MProc_Client_RX", id>>

\* the port table parse_app_args leaves behind for a port mask
TableOfMask(mask) ==
    LET n == Cardinality(mask)
        nth[k \in 0..MaxPorts] ==
            \* k-th smallest element of mask
            IF k = 0 THEN CHOOSE m \in mask : \A o \in mask : m <= o
            ELSE CHOOSE m \in mask :
                    /\ m > nth[k - 1]
                    /\ \A o \in mask : o > nth[k - 1] => m <= o
    IN [num_ports |-> n,
        id |-> [k \in PortIdx |-> IF k < n THEN nth[k] ELSE 0]]

At(p, label) == pc[p] = label /\ status[p] = "running"

Goto(p, label) == pc' = [pc EXCEPT ![p] = label]

\* The process ends with status st.  Its address space is gone with it, so
\* its own variables go back to their initial values; pc keeps the place
\* where it ended.  Nothing shared is touched.
Die(p, st) ==
    /\ status' = [status EXCEPT ![p] = st]
    /\ ports' = [ports EXCEPT ![p] = NULL]
    /\ num_clients' = [num_clients EXCEPT ![p] = 0]
    /\ pktmbuf_pool' = [pktmbuf_pool EXCEPT ![p] = NULL]
    /\ clients' = [clients EXCEPT ![p] = NULL]
    /\ count' = [count EXCEPT ![p] = 0]
    /\ i' = [i EXCEPT ![p] = 0]
    /\ UNCHANGED <<pc, role, link_checked>>

\* rte_exit(EXIT_FAILURE, ...)
Fatal(p) == Die(p, "fatal")

\* return -1 from init()
ReturnError(p) == Die(p, "error")

\* ------------------------------------------------------------------ Init
Init ==
    /\ pc = [p \in Procs |-> "eal_init"]
    /\ status = [p \in Procs |-> "running"]
    /\ role = [p \in Procs |-> "NONE"]
    /\ ports = [p \in Procs |-> NULL]
    /\ num_clients = [p \in Procs |-> 0]
    /\ pktmbuf_pool = [p \in Procs |-> NULL]
    /\ clients = [p \in Procs |-> NULL]
    /\ count = [p \in Procs |-> 0]
    /\ i = [p \in Procs |-> 0]
    /\ link_checked = [p \in Procs |-> FALSE]
    /\ memzones = {}
    /\ port_table = ZeroTable
    /\ mempools = {}
    /\ rings = {}
    /\ hw_ports = {}
    /\ published = NULL
    /\ after_primary = [p \in Procs |-> FALSE]

\* ------------------------------------------------------------ rte_eal_init
\* Process ids are given in launch order: p enters init() once every
\* process with a smaller id has entered it.
Launched(p) == \A q \in Procs : q < p => pc[q] # "eal_init" \/ status[q] # "running"

\* init(): retval = rte_eal_init(argc, argv); if (retval < 0) return -1;
\* from here on rte_eal_process_type() is fixed
EalInit(p) ==
    /\ At(p, "eal_init")
    /\ Launched(p)
    /\ \/ /\ ReturnError(p)
          /\ UNCHANGED after_primary
       \/ /\ \E r \in {"PRIMARY", "SECONDARY"} : role' = [role EXCEPT ![p] = r]
          /\ Goto(p, "port_info")
          /\ after_primary' = [after_primary EXCEPT ![p] =
                \E q \in Procs : role[q] = "PRIMARY" /\ status[q] = "ok"]
          /\ UNCHANGED <<status, ports, num_clients, pktmbuf_pool,
                         clients, count, i, link_checked>>
    /\ UNCHANGED <<shared, published>>

\* ------------------------------------------------------ port registry
\* a secondary that creates the region it did not find
SecondaryBindCreatesMissing(p) ==
    /\ At(p, "port_info")
    /\ role[p] = "SECONDARY"
    /\ IF Exists(memzones, MZ_PORT_INFO)
       THEN /\ ports' = [ports EXCEPT ![p] = Lookup(memzones, MZ_PORT_INFO)]
            /\ UNCHANGED <<memzones, port_table>>
       ELSE /\ memzones' = memzones \cup {[name |-> MZ_PORT_INFO, owner |-> p]}
            /\ port_table' = ZeroTable
            /\ ports' = [ports EXCEPT ![p] = [name |-> MZ_PORT_INFO, owner |-> p]]
    /\ Goto(p, "parse")
    /\ UNCHANGED <<status, role, num_clients, pktmbuf_pool, clients,
                   count, i, link_checked, mempools, rings, hw_ports, hist>>

\* a secondary that zero-fills the region it attached to
SecondaryBindZeroFills(p) ==
    /\ At(p, "port_info")
    /\ role[p] = "SECONDARY"
    /\ \/ /\ Lookup(memzones, MZ_PORT_INFO) = NULL
          /\ Fatal(p)
          /\ UNCHANGED port_table
       \/ /\ Lookup(memzones, MZ_PORT_INFO) # NULL
          /\ ports' = [ports EXCEPT ![p] = Lookup(memzones, MZ_PORT_INFO)]
          /\ port_table' = ZeroTable
          /\ Goto(p, "parse")
          /\ UNCHANGED <<status, role, num_clients, pktmbuf_pool,
                         clients, count, i, link_checked>>
    /\ UNCHANGED <<memzones, mempools, rings, hw_ports, hist>>

\* init(), secondary branch: mz = rte_memzone_lookup(MZ_PORT_INFO);
\* rte_exit on NULL, else ports = mz->addr
SecondaryBindPortRegistry(p) ==
    /\ At(p, "port_info")
    /\ role[p] = "SECONDARY"
    /\ \/ /\ Lookup(memzones, MZ_PORT_INFO) = NULL
          /\ Fatal(p)
       \/ /\ Lookup(memzones, MZ_PORT_INFO) # NULL
          /\ ports' = [ports EXCEPT ![p] = Lookup(memzones, MZ_PORT_INFO)]
          /\ Goto(p, "parse")
          /\ UNCHANGED <<status, role, num_clients, pktmbuf_pool,
                         clients, count, i, link_checked>>
    /\ UNCHANGED <<shared, hist>>

\* a primary that carries on with the existing region when the name is taken
PrimaryReserveAttachesExisting(p) ==
    /\ At(p, "port_info")
    /\ role[p] = "PRIMARY"
    /\ \/ /\ Exists(memzones, MZ_PORT_INFO)
          /\ Goto(p, "memset")
          /\ UNCHANGED <<status, role, ports, num_clients, pktmbuf_pool, clients, count, i, link_checked>>
          /\ UNCHANGED <<memzones, port_table>>
       \/ /\ ~Exists(memzones, MZ_PORT_INFO)
          /\ Fatal(p)
          /\ UNCHANGED <<memzones, port_table>>
       \/ /\ ~Exists(memzones, MZ_PORT_INFO)
          /\ memzones' = memzones \cup {[name |-> MZ_PORT_INFO, owner |-> p]}
          /\ port_table' \in {ZeroTable, GarbageTable}
          /\ Goto(p, "memset")
          /\ UNCHANGED <<status, role, ports, num_clients, pktmbuf_pool, clients, count, i, link_checked>>
    /\ UNCHANGED <<mempools, rings, hw_ports, hist>>

\* init(), primary branch: mz = rte_memzone_reserve(MZ_PORT_INFO, ...);
\* rte_exit on NULL.  The reserve returns NULL when the name exists, and it
\* can return NULL for want of memory.
PrimaryReservePortRegistry(p) ==
    /\ At(p, "port_info")
    /\ role[p] = "PRIMARY"
    /\ \/ /\ Fatal(p)
          /\ UNCHANGED <<memzones, port_table>>
       \/ /\ ~Exists(memzones, MZ_PORT_INFO)
          /\ memzones' = memzones \cup {[name |-> MZ_PORT_INFO, owner |-> p]}
          /\ port_table' \in {ZeroTable, GarbageTable}
          /\ Goto(p, "memset")
          /\ UNCHANGED <<status, role, ports, num_clients, pktmbuf_pool, clients, count, i, link_checked>>
    /\ UNCHANGED <<mempools, rings, hw_ports, hist>>

\* a primary that goes from the memset straight to the buffer pool
ZeroFillSkipsParse(p) ==
    /\ At(p, "memset")
    /\ port_table' = ZeroTable
    /\ ports' = [ports EXCEPT ![p] = Lookup(memzones, MZ_PORT_INFO)]
    /\ Goto(p, "mbuf")
    /\ UNCHANGED <<status, role, num_clients, pktmbuf_pool, clients,
                   count, i, link_checked, memzones, mempools, rings, hw_ports,
                   hist>>

\* init(), primary branch: memset(mz->addr, 0, sizeof(*ports)); ports = mz->addr
ZeroFillPortRegistry(p) ==
    /\ At(p, "memset")
    /\ port_table' = ZeroTable
    /\ ports' = [ports EXCEPT ![p] = Lookup(memzones, MZ_PORT_INFO)]
    /\ Goto(p, "parse")
    /\ UNCHANGED <<status, role, num_clients, pktmbuf_pool, clients,
                   count, i, link_checked, memzones, mempools, rings, hw_ports,
                   hist>>

\* ------------------------------------------------------ parse_app_args
\* What a successful parse_app_args stores: the primary publishes num_ports
\* and ids into the shared table; every process keeps its own num_clients;
\* a secondary only reads the table.
parse_app_args(p, mask, n) ==
    /\ num_clients' = [num_clients EXCEPT ![p] = n]
    /\ IF role[p] = "PRIMARY"
       THEN /\ port_table' = TableOfMask(mask)
            /\ published' = TableOfMask(mask)
       ELSE UNCHANGED <<port_table, published>>

\* an argument parsing that wipes the port table when it fails
ParseStepFailureClearsTable(p) ==
    /\ At(p, "parse")
    /\ \/ /\ ReturnError(p)
          /\ port_table' = ZeroTable
          /\ UNCHANGED published
       \/ /\ \E mask \in SUBSET (0..(total_ports - 1)), n \in 0..MaxClients :
                parse_app_args(p, mask, n)
          /\ Goto(p, "mbuf")
          /\ UNCHANGED <<status, role, ports, pktmbuf_pool, clients, count, i,
                         link_checked>>
    /\ UNCHANGED <<memzones, mempools, rings, hw_ports, after_primary>>

\* init(): retval = parse_app_args(total_ports, argc, argv); if (retval != 0) return -1
ParseStep(p) ==
    /\ At(p, "parse")
    /\ \/ /\ ReturnError(p)
          /\ UNCHANGED <<port_table, published>>
       \/ /\ \E mask \in SUBSET (0..(total_ports - 1)), n \in 0..MaxClients :
                parse_app_args(p, mask, n)
          /\ Goto(p, "mbuf")
          /\ UNCHANGED <<status, role, ports, pktmbuf_pool, clients, count, i,
                         link_checked>>
    /\ UNCHANGED <<memzones, mempools, rings, hw_ports, after_primary>>

\* ------------------------------------------------------ init_mbuf_pools
\* a bring-up that sends the secondary into the port loop as well
InitMbufPoolsThenPortsForAll(p) ==
    /\ At(p, "mbuf")
    /\ \/ /\ role[p] = "SECONDARY"
          /\ Lookup(mempools, PKTMBUF_POOL_NAME) = NULL
          /\ Fatal(p)
          /\ UNCHANGED mempools
       \/ /\ role[p] = "SECONDARY"
          /\ Lookup(mempools, PKTMBUF_POOL_NAME) # NULL
          /\ pktmbuf_pool' = [pktmbuf_pool EXCEPT ![p] =
                                Lookup(mempools, PKTMBUF_POOL_NAME)]
          /\ count' = [count EXCEPT ![p] = 0]
          /\ Goto(p, "init_port")
          /\ UNCHANGED <<status, role, ports, num_clients, clients,
                         i, link_checked, mempools>>
       \/ /\ role[p] # "SECONDARY"
          /\ Fatal(p)
          /\ UNCHANGED mempools
       \/ /\ role[p] # "SECONDARY"
          /\ ~Exists(mempools, PKTMBUF_POOL_NAME)
          /\ mempools' = mempools \cup {[name |-> PKTMBUF_POOL_NAME, owner |-> p]}
          /\ pktmbuf_pool' = [pktmbuf_pool EXCEPT ![p] =
                                [name |-> PKTMBUF_POOL_NAME, owner |-> p]]
          /\ count' = [count EXCEPT ![p] = 0]
          /\ Goto(p, "init_port")
          /\ UNCHANGED <<status, role, ports, num_clients, clients,
                         i, link_checked>>
    /\ UNCHANGED <<memzones, port_table, rings, hw_ports, hist>>

\* init_mbuf_pools() and the check of its result in init().  A secondary
\* looks the pool up and exits on NULL; the primary creates it, and a NULL
\* (name taken, or no memory) makes init() exit.  A secondary goes on to the
\* link-status call, the primary enters the port loop.
InitMbufPools(p) ==
    /\ At(p, "mbuf")
    /\ \/ /\ role[p] = "SECONDARY"
          /\ Lookup(mempools, PKTMBUF_POOL_NAME) = NULL
          /\ Fatal(p)
          /\ UNCHANGED mempools
       \/ /\ role[p] = "SECONDARY"
          /\ Lookup(mempools, PKTMBUF_POOL_NAME) # NULL
          /\ pktmbuf_pool' = [pktmbuf_pool EXCEPT ![p] =
                                Lookup(mempools, PKTMBUF_POOL_NAME)]
          /\ Goto(p, "link")
          /\ UNCHANGED <<status, role, ports, num_clients, clients,
                         count, i, link_checked, mempools>>
       \/ /\ role[p] # "SECONDARY"
          /\ Fatal(p)
          /\ UNCHANGED mempools
       \/ /\ role[p] # "SECONDARY"
          /\ ~Exists(mempools, PKTMBUF_POOL_NAME)
          /\ mempools' = mempools \cup {[name |-> PKTMBUF_POOL_NAME, owner |-> p]}
          /\ pktmbuf_pool' = [pktmbuf_pool EXCEPT ![p] =
                                [name |-> PKTMBUF_POOL_NAME, owner |-> p]]
          /\ count' = [count EXCEPT ![p] = 0]
          /\ Goto(p, "init_port")
          /\ UNCHANGED <<status, role, ports, num_clients, clients,
                         i, link_checked>>
    /\ UNCHANGED <<memzones, port_table, rings, hw_ports, hist>>

\* ------------------------------------------------------ port configuration
\* a port loop that carries on after a port that could not be configured
InitPortLoopIgnoresFailure(p) ==
    /\ At(p, "init_port")
    /\ \/ /\ count[p] < port_table.num_ports
          /\ \/ hw_ports' = hw_ports \cup {port_table.id[count[p]]}
             \/ UNCHANGED hw_ports
          /\ count' = [count EXCEPT ![p] = count[p] + 1]
          /\ UNCHANGED <<pc, status, role, ports, num_clients,
                         pktmbuf_pool, clients, i, link_checked>>
       \/ /\ ~(count[p] < port_table.num_ports)
          /\ Goto(p, "link")
          /\ UNCHANGED <<status, role, ports, num_clients,
                         pktmbuf_pool, clients, count, i, link_checked, hw_ports>>
    /\ UNCHANGED <<memzones, port_table, mempools, rings, hist>>

\* init(), primary only: for (count = 0; count < ports->num_ports; count++)
\*     retval = init_port(ports->id[count], pktmbuf_pool); rte_exit on failure
InitPortLoop(p) ==
    /\ At(p, "init_port")
    /\ \/ /\ count[p] < port_table.num_ports
          /\ Fatal(p)
          /\ UNCHANGED hw_ports
       \/ /\ count[p] < port_table.num_ports
          /\ hw_ports' = hw_ports \cup {port_table.id[count[p]]}
          /\ count' = [count EXCEPT ![p] = count[p] + 1]
          /\ UNCHANGED <<pc, status, role, ports, num_clients, pktmbuf_pool, clients, i, link_checked>>
       \/ /\ ~(count[p] < port_table.num_ports)
          /\ Goto(p, "link")
          /\ UNCHANGED <<status, role, ports, num_clients, pktmbuf_pool, clients, count, i, link_checked, hw_ports>>
    /\ UNCHANGED <<memzones, port_table, mempools, rings, hist>>

\* init(): check_all_ports_link_status(ports, ports->num_ports, (~0x0))
CheckAllPortsLinkStatus(p) ==
    /\ At(p, "link")
    /\ link_checked' = [link_checked EXCEPT ![p] = TRUE]
    /\ Goto(p, "malloc")
    /\ UNCHANGED <<status, role, ports, num_clients, pktmbuf_pool,
                   clients, count, i, shared, hist>>

\* ------------------------------------------------------ init_shm_rings
\* rte_malloc(type, size, align): NULL for a request of size 0 and when no
\* memory is left (ok = FALSE), otherwise an array of n records whose rx_q
\* are not initialised
rte_malloc(n, ok) ==
    IF n = 0 \/ ~ok THEN NULL
    ELSE [kind |-> "client details", rx_q |-> [k \in 1..n |-> UNINIT]]

\* init_shm_rings(): clients = rte_malloc("client details",
\*     sizeof(*clients) * num_clients, 0); if (clients == NULL) rte_exit(...)
AllocClients(p) ==
    /\ At(p, "malloc")
    /\ \E ok \in BOOLEAN :
          \/ /\ rte_malloc(num_clients[p], ok) = NULL
             /\ Fatal(p)
          \/ /\ rte_malloc(num_clients[p], ok) # NULL
             /\ clients' = [clients EXCEPT ![p] = rte_malloc(num_clients[p], ok)]
             /\ i' = [i EXCEPT ![p] = 0]
             /\ Goto(p, "rings")
             /\ UNCHANGED <<status, role, ports, num_clients, pktmbuf_pool, count, link_checked>>
    /\ UNCHANGED <<shared, hist>>

\* a ring loop that stops one client short
RingLoopCondOffByOne(idx, n) == idx + 1 < n

\* a ring loop that ends at the first client whose ring does not exist
RingLoopCondStopsAtMissing(idx, n) ==
    idx < n /\ Exists(rings, get_rx_queue_name(idx))

\* init_shm_rings(): the loop condition i < num_clients
RingLoopCond(idx, n) == idx < n

\* a ring loop that frees the rings it has created when a creation fails
RingLoopFreesOnFailure(p) ==
    /\ At(p, "rings")
    /\ \/ /\ RingLoopCond(i[p], num_clients[p])
          /\ role[p] = "SECONDARY"
          /\ Lookup(rings, get_rx_queue_name(i[p])) = NULL
          /\ Fatal(p)
          /\ UNCHANGED rings
       \/ /\ RingLoopCond(i[p], num_clients[p])
          /\ role[p] = "SECONDARY"
          /\ Lookup(rings, get_rx_queue_name(i[p])) # NULL
          /\ clients' = [clients EXCEPT ![p].rx_q[i[p] + 1] =
                            Lookup(rings, get_rx_queue_name(i[p]))]
          /\ i' = [i EXCEPT ![p] = i[p] + 1]
          /\ UNCHANGED <<pc, status, role, ports, num_clients,
                         pktmbuf_pool, count, link_checked, rings>>
       \/ /\ RingLoopCond(i[p], num_clients[p])
          /\ role[p] # "SECONDARY"
          /\ Fatal(p)
          /\ rings' = {r \in rings : r.owner # p}
       \/ /\ RingLoopCond(i[p], num_clients[p])
          /\ role[p] # "SECONDARY"
          /\ ~Exists(rings, get_rx_queue_name(i[p]))
          /\ rings' = rings \cup {[name |-> get_rx_queue_name(i[p]), owner |-> p]}
          /\ clients' = [clients EXCEPT ![p].rx_q[i[p] + 1] =
                            [name |-> get_rx_queue_name(i[p]), owner |-> p]]
          /\ i' = [i EXCEPT ![p] = i[p] + 1]
          /\ UNCHANGED <<pc, status, role, ports, num_clients,
                         pktmbuf_pool, count, link_checked>>
       \/ /\ ~RingLoopCond(i[p], num_clients[p])
          /\ Goto(p, "done")
          /\ status' = [status EXCEPT ![p] = "ok"]
          /\ UNCHANGED <<role, ports, num_clients, pktmbuf_pool,
                         clients, count, i, link_checked, rings>>
    /\ UNCHANGED <<memzones, port_table, mempools, hw_ports, hist>>

\* init_shm_rings(): one turn of the loop (look up or create the ring of
\* client i, rte_exit on NULL), or the end of the loop with return 0 from
\* init_shm_rings() and from init().  rte_ring_create returns NULL when the
\* name exists, and it can return NULL for want of memory.
RingLoop(p) ==
    /\ At(p, "rings")
    /\ \/ /\ RingLoopCond(i[p], num_clients[p])
          /\ role[p] = "SECONDARY"
          /\ Lookup(rings, get_rx_queue_name(i[p])) = NULL
          /\ Fatal(p)
          /\ UNCHANGED rings
       \/ /\ RingLoopCond(i[p], num_clients[p])
          /\ role[p] = "SECONDARY"
          /\ Lookup(rings, get_rx_queue_name(i[p])) # NULL
          /\ clients' = [clients EXCEPT ![p].rx_q[i[p] + 1] =
                            Lookup(rings, get_rx_queue_name(i[p]))]
          /\ i' = [i EXCEPT ![p] = i[p] + 1]
          /\ UNCHANGED <<pc, status, role, ports, num_clients, pktmbuf_pool, count, link_checked, rings>>
       \/ /\ RingLoopCond(i[p], num_clients[p])
          /\ role[p] # "SECONDARY"
          /\ Fatal(p)
          /\ UNCHANGED rings
       \/ /\ RingLoopCond(i[p], num_clients[p])
          /\ role[p] # "SECONDARY"
          /\ ~Exists(rings, get_rx_queue_name(i[p]))
          /\ rings' = rings \cup {[name |-> get_rx_queue_name(i[p]), owner |-> p]}
          /\ clients' = [clients EXCEPT ![p].rx_q[i[p] + 1] =
                            [name |-> get_rx_queue_name(i[p]), owner |-> p]]
          /\ i' = [i EXCEPT ![p] = i[p] + 1]
          /\ UNCHANGED <<pc, status, role, ports, num_clients, pktmbuf_pool, count, link_checked>>
       \/ /\ ~RingLoopCond(i[p], num_clients[p])
          /\ Goto(p, "done")
          /\ status' = [status EXCEPT ![p] = "ok"]
          /\ UNCHANGED <<role, ports, num_clients, pktmbuf_pool,
                         clients, count, i, link_checked, rings>>
    /\ UNCHANGED <<memzones, port_table, mempools, hw_ports, hist>>

\* ------------------------------------------------------------------ Next
Next ==
    \E p \in Procs :
        \/ EalInit(p)
        \/ SecondaryBindPortRegistry(p)
        \/ PrimaryReservePortRegistry(p)
        \/ ZeroFillPortRegistry(p)
        \/ ParseStep(p)
        \/ InitMbufPools(p)
        \/ InitPortLoop(p)
        \/ CheckAllPortsLinkStatus(p)
        \/ AllocClients(p)
        \/ RingLoop(p)

Spec == Init /\ [][Next]_vars

\* ------------------------------------------------------------ vocabulary
Primary(p) == role[p] = "PRIMARY"
Secondary(p) == role[p] = "SECONDARY"

\* the process took a step of init()
Stepped(p) == <<pc[p], status[p], count[p], i[p]>>' # <<pc[p], status[p], count[p], i[p]>>

PastParse == {"mbuf", "init_port", "link", "malloc", "rings", "done"}

\* a primary has finished writing num_ports and ids
TablePublished == \E q \in Procs : Primary(q) /\ pc[q] \in PastParse

TypeOK ==
    /\ pc \in [Procs -> {"eal_init", "port_info", "memset", "parse"} \cup PastParse]
    /\ status \in [Procs -> {"running", "ok", "error", "fatal"}]
    /\ role \in [Procs -> {"NONE", "PRIMARY", "SECONDARY"}]
    /\ num_clients \in [Procs -> 0..MaxClients]
    /\ port_table.num_ports \in 0..MaxPorts

\* the resources a process has created
OwnedBy(p) ==
    {r \in memzones : r.owner = p} \cup {r \in mempools : r.owner = p}
        \cup {r \in rings : r.owner = p}

\* p stands right before a lookup that will not find its resource
LookupMisses(p) ==
    /\ Secondary(p)
    /\ status[p] = "running"
    /\ \/ pc[p] = "port_info" /\ ~Exists(memzones, MZ_PORT_INFO)
       \/ pc[p] = "mbuf" /\ ~Exists(mempools, PKTMBUF_POOL_NAME)
       \/ /\ pc[p] = "rings"
          /\ i[p] < num_clients[p]
          /\ ~Exists(rings, get_rx_queue_name(i[p]))

\* C1: a secondary whose lookup of the port-info region, the buffer pool or
\* a client queue finds nothing terminates fatally at that lookup: its next
\* step is the fatal exit at the same place, it creates nothing, and a
\* process that has exited fatally never moves or succeeds afterwards.
C1_LookupMissIsFatal ==
    [][\A p \in Procs :
          /\ (LookupMisses(p) /\ Stepped(p)) =>
                /\ status'[p] = "fatal"
                /\ pc'[p] = pc[p]
                /\ <<memzones, mempools, rings>>' = <<memzones, mempools, rings>>
          /\ status[p] = "fatal" => (status'[p] = "fatal" /\ pc'[p] = pc[p])
          /\ Secondary(p) => OwnedBy(p)' = {}]_vars

\* C1 witness: a secondary that ran ahead of the primary has died at the
\* lookup of a queue the primary had not created
C1_Witness ==
    \E p \in Procs :
        /\ Secondary(p)
        /\ status[p] = "fatal"
        /\ pc[p] = "rings"
        /\ \E q \in Procs : Primary(q) /\ q # p /\ pktmbuf_pool[q] # NULL
        /\ \E k \in 0..(MaxClients - 1) : ~Exists(rings, get_rx_queue_name(k))

\* p's step is a successful lookup of the port-info region / pool / a ring
AttachesPortInfo(p) == Secondary(p) /\ pc[p] = "port_info" /\ pc'[p] = "parse"
AttachesPool(p) == Secondary(p) /\ pc[p] = "mbuf" /\ pc'[p] = "link"
AttachesRing(p) == Secondary(p) /\ pc[p] = "rings" /\ i'[p] = i[p] + 1

\* the process that created the resource is a primary whose create call is over
CreatedByPrimary(set, name, label) ==
    \E r \in set :
        /\ r.name = name
        /\ Primary(r.owner)
        /\ pc[r.owner] # label \/ status[r.owner] # "running"

\* C2 as stated: whenever a secondary's lookup succeeds the primary has
\* finished creating and populating the resource; no secondary attaches to
\* the port table before num_ports and ids are published.
C2_AttachOnlyAfterPopulated ==
    [][\A p \in Procs :
          /\ AttachesPortInfo(p) => TablePublished
          /\ AttachesPool(p) => CreatedByPrimary(mempools, PKTMBUF_POOL_NAME, "mbuf")
          /\ AttachesRing(p) => Exists(rings, get_rx_queue_name(i[p]))]_vars

\* C2 amended: whenever a secondary's lookup succeeds, a primary has already
\* returned from the create call of that resource (pool and rings are
\* complete from that call on); the port table may still be unpublished,
\* but when the lookup comes after the publication the table holds the
\* published num_ports and ids.
C2_AttachOnlyAfterCreated ==
    [][\A p \in Procs :
          /\ AttachesPortInfo(p) =>
                /\ CreatedByPrimary(memzones, MZ_PORT_INFO, "port_info")
                /\ TablePublished => port_table = published
          /\ AttachesPool(p) => CreatedByPrimary(mempools, PKTMBUF_POOL_NAME, "mbuf")
          /\ AttachesRing(p) =>
                \E r \in rings : r.name = get_rx_queue_name(i[p]) /\ Primary(r.owner)]_vars

\* C2 witness: a secondary is attached to the port table while the primary
\* that reserved it has not yet published num_ports and ids
C2_Witness ==
    \E p, q \in Procs :
        /\ Secondary(p) /\ ports[p] # NULL /\ status[p] = "running"
        /\ Primary(q) /\ ports[p].owner = q
        /\ pc[q] \in {"memset", "parse"} /\ status[q] = "running"

\* C3: a secondary that started after a primary's bring-up had returned 0
\* and has itself returned 0 points at the shared table, and that table has
\* the num_ports and ids the primary published.
C3_SecondarySeesPublishedTable ==
    \A p \in Procs :
        (Secondary(p) /\ after_primary[p] /\ status[p] = "ok") =>
            /\ ports[p] = Lookup(memzones, MZ_PORT_INFO)
            /\ ports[p] # NULL
            /\ port_table = published
            /\ port_table.num_ports = published.num_ports
            /\ \A k \in PortIdx : port_table.id[k] = published.id[k]

\* C3 witness: such a secondary has returned 0 and the published table
\* lists more than one port
C3_Witness ==
    \E p \in Procs :
        /\ Secondary(p) /\ after_primary[p] /\ status[p] = "ok"
        /\ published # NULL
        /\ published.num_ports >= 2
        /\ published.id[1] # 0

\* C4: no step of a process that is not a primary changes the shared port
\* table, and once a primary is past its argument parsing no step of any
\* process changes num_ports or ids.
C4_TableImmutableAfterPublication ==
    [][/\ \A p \in Procs :
             (Stepped(p) /\ role'[p] # "PRIMARY") => port_table' = port_table
       /\ TablePublished =>
             /\ port_table'.num_ports = port_table.num_ports
             /\ port_table'.id = port_table.id]_vars

\* C4 witness: after the publication of a non-empty table a secondary has
\* run its own argument parsing and its whole bring-up
C4_Witness ==
    \E p \in Procs :
        /\ Secondary(p) /\ status[p] = "ok"
        /\ TablePublished
        /\ port_table.num_ports >= 1
        /\ port_table = published

\* C5: no name is ever created twice, and a process running as primary that
\* did not create the port-info region itself (the name existed already, or
\* the reserve failed) never gets past the reserve and never returns 0.
C5_OneCreatorPerName ==
    /\ \A r1, r2 \in memzones : r1.name = r2.name => r1 = r2
    /\ \A r1, r2 \in mempools : r1.name = r2.name => r1 = r2
    /\ \A r1, r2 \in rings : r1.name = r2.name => r1 = r2
    /\ \A p \in Procs :
          (Primary(p) /\ pc[p] # "port_info") =>
              [name |-> MZ_PORT_INFO, owner |-> p] \in memzones
    /\ \A p \in Procs :
          (Primary(p) /\ status[p] = "ok") =>
              /\ [name |-> PKTMBUF_POOL_NAME, owner |-> p] \in mempools
              /\ \A r \in rings : r.owner = p
    /\ Cardinality({p \in Procs : Primary(p) /\ status[p] = "ok"}) <= 1

\* C5 witness: a second primary has died at the reserve of the existing name
C5_Witness ==
    \E p, q \in Procs :
        /\ p # q /\ Primary(p) /\ Primary(q)
        /\ [name |-> MZ_PORT_INFO, owner |-> q] \in memzones
        /\ pc[p] = "port_info" /\ status[p] = "fatal"
        /\ status[q] = "ok"

\* C7: a primary that has returned 0 with num_clients >= 1 has created
\* exactly num_clients rings, one per index 0..num_clients-1 under pairwise
\* distinct names, and the ring found under the name of index j is the one
\* held for index k exactly when j = k.
C7_OneQueuePerClient ==
    \A p \in Procs :
        (Primary(p) /\ status[p] = "ok" /\ num_clients[p] >= 1) =>
            LET n == num_clients[p]
                mine == {r \in rings : r.owner = p}
            IN /\ Cardinality(mine) = n
               /\ {r.name : r \in mine} = {get_rx_queue_name(k) : k \in 0..(n - 1)}
               /\ Cardinality({get_rx_queue_name(k) : k \in 0..(n - 1)}) = n
               /\ DOMAIN clients[p].rx_q = 1..n
               /\ \A j, k \in 0..(n - 1) :
                     (Lookup(rings, get_rx_queue_name(j)) = clients[p].rx_q[k + 1])
                        <=> (j = k)
               /\ \A j \in 0..MaxClients :
                     j >= n => Lookup(rings, get_rx_queue_name(j)) = NULL

\* C7 witness: a primary has returned 0 with at least two clients
C7_Witness ==
    \E p \in Procs :
        /\ Primary(p) /\ status[p] = "ok" /\ num_clients[p] >= 2
        /\ Cardinality(rings) = num_clients[p]

\* C8 as stated: with num_clients = 0 the client-queue step of the primary
\* is no failure: the primary does not exit in init_shm_rings and creates
\* no ring.
C8_ZeroClientsIsNoFailure ==
    \A p \in Procs :
        (Primary(p) /\ num_clients[p] = 0 /\ pc[p] \in {"malloc", "rings", "done"}) =>
            /\ status[p] # "fatal"
            /\ {r \in rings : r.owner = p} = {}

\* the client indexes whose queue p has looked up so far
LookedUp(p) ==
    IF clients[p] = NULL THEN {}
    ELSE {k \in 0..(num_clients[p] - 1) : clients[p].rx_q[k + 1] # UNINIT}

\* C9 as stated: during bring-up a secondary looks up one client queue only,
\* its own: it never holds the handles of two different clients' queues.
C9_SecondaryLooksUpOwnQueueOnly ==
    \A p \in Procs : Secondary(p) => Cardinality(LookedUp(p)) <= 1

\* the primary that configured the client set: past its argument parsing and
\* not terminated by a failure
ConfiguringPrimary(q) ==
    Primary(q) /\ pc[q] \in PastParse /\ status[q] \in {"running", "ok"}

\* C10: a secondary whose bring-up asks for the queue of a client index that
\* is not below the primary's num_clients fails fatally at that queue
\* lookup, and a secondary configured to bind such an index never returns 0.
C10_IndexOutOfRangeIsFatal ==
    /\ [][\A p, q \in Procs :
            (/\ Secondary(p) /\ At(p, "rings") /\ ConfiguringPrimary(q)
             /\ i[p] < num_clients[p]
             /\ i[p] >= num_clients[q]
             /\ Stepped(p)) =>
                status'[p] = "fatal" /\ pc'[p] = "rings"]_vars
    /\ [](\A p, q \in Procs :
            (Secondary(p) /\ status[p] = "ok" /\ ConfiguringPrimary(q)) =>
                /\ num_clients[p] <= num_clients[q]
                /\ \A k \in 0..MaxClients :
                      k >= num_clients[q] => ~Exists(rings, get_rx_queue_name(k)))

\* C10 witness: the primary has returned 0 with every one of its queues in
\* place, and a secondary started after that has died in the queue loop,
\* which can only be at an index not below the primary's num_clients
C10_Witness ==
    \E p, q \in Procs :
        /\ Secondary(p) /\ after_primary[p]
        /\ status[p] = "fatal" /\ pc[p] = "rings"
        /\ Primary(q) /\ status[q] = "ok" /\ num_clients[q] >= 1
        /\ \A k \in 0..(num_clients[q] - 1) : Exists(rings, get_rx_queue_name(k))

\* C11 as stated: a process whose rte_eal_init or parse_app_args failed has
\* returned -1 without having created any shared resource.
C11_EnvFailureTouchesNothing ==
    \A p \in Procs : status[p] = "error" => OwnedBy(p) = {}

\* C11 amended: init() returns -1 only from rte_eal_init and from
\* parse_app_args.  At rte_eal_init the process has created and attached
\* nothing.  At parse_app_args it has bound the port-info region only (the
\* primary has created it, the secondary has attached to it) and has neither
\* created nor attached to the buffer pool or a client queue; the failing
\* step itself changes nothing shared.
C11_EnvFailureTouchesOnlyPortInfo ==
    /\ [](\A p \in Procs :
            /\ pc[p] = "eal_init" =>
                  /\ OwnedBy(p) = {}
                  /\ ports[p] = NULL /\ pktmbuf_pool[p] = NULL /\ clients[p] = NULL
            /\ pc[p] = "parse" =>
                  /\ OwnedBy(p) \subseteq memzones
                  /\ pktmbuf_pool[p] = NULL /\ clients[p] = NULL
            /\ status[p] = "error" => pc[p] \in {"eal_init", "parse"})
    /\ [][\A p \in Procs :
            (status[p] = "running" /\ status'[p] = "error") => shared' = shared]_vars

\* C11 witness: a primary has returned -1 from the argument parsing with the
\* port-info region it reserved left behind, after another process had
\* returned -1 from rte_eal_init
C11_Witness ==
    \E p, q \in Procs :
        /\ Primary(p) /\ status[p] = "error" /\ pc[p] = "parse"
        /\ [name |-> MZ_PORT_INFO, owner |-> p] \in memzones
        /\ status[q] = "error" /\ pc[q] = "eal_init"

\* the resources of one kind that p has created
Owned(set, p) == {r \in set : r.owner = p}

\* what the process hands back: 0 from return 0, -1 from return -1,
\* EXIT_FAILURE from rte_exit
ExitCode(p) ==
    CASE status[p] = "ok" -> 0
      [] status[p] = "error" -> -1
      [] status[p] = "fatal" -> 1

\* every step of init() has succeeded for p
AllStepsSucceeded(p) ==
    /\ ports[p] # NULL /\ ports[p] = Lookup(memzones, MZ_PORT_INFO)
    /\ pktmbuf_pool[p] # NULL /\ pktmbuf_pool[p] = Lookup(mempools, PKTMBUF_POOL_NAME)
    /\ link_checked[p]
    /\ clients[p] # NULL
    /\ \A k \in 0..(num_clients[p] - 1) :
          /\ clients[p].rx_q[k + 1] # NULL
          /\ clients[p].rx_q[k + 1] = Lookup(rings, get_rx_queue_name(k))
    /\ Primary(p) =>
          /\ Owned(memzones, p) = {ports[p]}
          /\ Owned(mempools, p) = {pktmbuf_pool[p]}
          /\ Owned(rings, p) = {clients[p].rx_q[k + 1] : k \in 0..(num_clients[p] - 1)}
          /\ published # NULL
          /\ \A k \in PortIdx : k < port_table.num_ports => port_table.id[k] \in hw_ports

\* C12: init() yields 0 exactly when it has run to its end with every step
\* succeeded; a process that met a fatal condition has stopped at that place
\* with a non-zero code and takes no further step.
C12_ZeroIffEveryStepSucceeded ==
    /\ [](\A p \in Procs :
            /\ pc[p] = "done" <=> status[p] = "ok"
            /\ status[p] # "running" =>
                  /\ ExitCode(p) = 0 <=> pc[p] = "done"
                  /\ ExitCode(p) = 0 => AllStepsSucceeded(p))
    /\ [][\A p \in Procs :
            /\ status[p] # "running" => (pc'[p] = pc[p] /\ status'[p] = status[p])
            /\ (status[p] = "running" /\ status'[p] \in {"error", "fatal"}) =>
                  /\ pc'[p] = pc[p]
                  /\ Owned(memzones, p)' = Owned(memzones, p)
                  /\ Owned(mempools, p)' = Owned(mempools, p)
                  /\ Owned(rings, p)' = Owned(rings, p)]_vars

\* C12 witness: a primary has returned 0 with two ports configured while
\* another process has been terminated
C12_Witness ==
    \E p, q \in Procs :
        /\ Primary(p) /\ status[p] = "ok" /\ port_table.num_ports >= 2
        /\ status[q] = "fatal"

\* C13: only a primary is ever inside the port loop, and every init_port
\* call (a step that configures a port or advances the loop) is a primary's.
C13_OnlyPrimaryConfiguresPorts ==
    /\ [](\A p \in Procs : (pc[p] = "init_port" \/ count[p] # 0) => Primary(p))
    /\ [][hw_ports' # hw_ports =>
            \E p \in Procs : Primary(p) /\ pc[p] = "init_port" /\ Stepped(p)]_vars

\* C13 witness: a secondary has run its whole bring-up next to ports the
\* primary configured
C13_Witness ==
    \E p \in Procs :
        /\ Secondary(p) /\ status[p] = "ok"
        /\ hw_ports # {}

\* the moves of pc that the text of init() allows
PcOrder ==
    {<<"eal_init", "port_info">>, <<"port_info", "memset">>,
     <<"port_info", "parse">>, <<"memset", "parse">>, <<"parse", "mbuf">>,
     <<"mbuf", "init_port">>, <<"mbuf", "link">>, <<"init_port", "link">>,
     <<"link", "malloc">>, <<"malloc", "rings">>, <<"rings", "done">>}

Alive(p) == status[p] \in {"running", "ok"}

\* C14: each process goes through port registry, argument parsing, buffer
\* pool, (primary only) port configuration, link status, client queues in
\* this order; a port is configured only with the pool handle in hand, and
\* a client queue exists only once the pool exists.
C14_StepsInOrder ==
    /\ [][\A p \in Procs :
            /\ pc'[p] # pc[p] => <<pc[p], pc'[p]>> \in PcOrder
            /\ (pc[p] = "port_info" /\ pc'[p] = "parse") => Secondary(p)
            /\ (pc[p] = "mbuf" /\ pc'[p] = "link") => Secondary(p)
            /\ (Stepped(p) /\ hw_ports' # hw_ports) =>
                  (pktmbuf_pool[p] # NULL /\ pktmbuf_pool[p] \in mempools)]_vars
    /\ [](\A p \in Procs :
            /\ (Alive(p) /\ pc[p] \in PastParse) => ports[p] # NULL
            /\ (Primary(p) /\ pc[p] \in PastParse) => published # NULL
            /\ (Alive(p) /\ pc[p] \in PastParse \ {"mbuf"}) => pktmbuf_pool[p] # NULL
            /\ (Alive(p) /\ Primary(p) /\ pc[p] \in {"link", "malloc", "rings", "done"}) =>
                  count[p] = port_table.num_ports
            /\ link_checked[p] <=> pc[p] \in {"malloc", "rings", "done"}
            /\ {r \in rings : r.owner = p} # {} =>
                  /\ [name |-> PKTMBUF_POOL_NAME, owner |-> p] \in mempools
                  /\ link_checked[p])
    /\ [](hw_ports # {} => mempools # {})
    /\ [](rings # {} => mempools # {})

\* C14 witness: a primary has gone through every step, with a port
\* configured and a queue created
C14_Witness ==
    \E p \in Procs :
        /\ Primary(p) /\ status[p] = "ok"
        /\ hw_ports # {} /\ rings # {}

\* C15: a primary that has died in the port loop has created no client
\* queue, no port is configured after its death, and whenever a client queue
\* exists every port ids[0..num_ports-1] has been configured.
C15_PortFailureStopsBringUp ==
    /\ [](\A p \in Procs :
            (Primary(p) /\ status[p] = "fatal" /\ pc[p] = "init_port") =>
                Owned(rings, p) = {})
    /\ [](rings # {} =>
            \A k \in PortIdx : k < port_table.num_ports => port_table.id[k] \in hw_ports)
    /\ [][(\E p \in Procs : Primary(p) /\ status[p] = "fatal" /\ pc[p] = "init_port") =>
            (hw_ports' = hw_ports /\ rings' = rings)]_vars

\* C15 witness: of two listed ports the first has been configured, the
\* second has failed, and the primary has died there
C15_Witness ==
    \E p \in Procs :
        /\ Primary(p) /\ status[p] = "fatal" /\ pc[p] = "init_port"
        /\ port_table.num_ports >= 2
        /\ Cardinality(hw_ports) = 1
        /\ rings = {}

\* C16 as stated: only a primary calls check_all_ports_link_status; a
\* secondary's bring-up never does.
C16_OnlyPrimaryPollsLinkStatus ==
    \A p \in Procs : link_checked[p] => Primary(p)

\* p holds a client descriptor array that it got from its own rte_malloc
\* call (no other statement assigns clients)
Allocated(p) == clients[p] # NULL

\* C17 as stated: the client descriptor set is allocated once, by the
\* primary; a secondary allocates no array of its own.
C17_OnlyPrimaryAllocatesClients ==
    /\ \A p \in Procs : Allocated(p) => Primary(p)
    /\ Cardinality({p \in Procs : Allocated(p)}) <= 1

\* C18: no step ever removes a memzone, the pool or a ring, and the step in
\* which a process fails leaves every shared resource as it was.
C18_NoRollbackOnFailure ==
    [][/\ memzones \subseteq memzones'
       /\ mempools \subseteq mempools'
       /\ rings \subseteq rings'
       /\ hw_ports \subseteq hw_ports'
       /\ \A p \in Procs :
             (status[p] = "running" /\ status'[p] \in {"error", "fatal"}) =>
                 shared' = shared]_vars

\* C18 witness: the primary has died at the creation of a later queue and
\* the region, the pool and the earlier queue are still there
C18_Witness ==
    \E p \in Procs :
        /\ Primary(p) /\ status[p] = "fatal" /\ pc[p] = "rings"
        /\ [name |-> MZ_PORT_INFO, owner |-> p] \in memzones
        /\ [name |-> PKTMBUF_POOL_NAME, owner |-> p] \in mempools
        /\ [name |-> get_rx_queue_name(0), owner |-> p] \in rings
        /\ ~Exists(rings, get_rx_queue_name(1))

\* C19: a process that has returned 0, in either role, holds a port table
\* pointer, a pool handle and, for every i below its num_clients, a queue
\* handle in clients[i].rx_q, each of them an existing resource.
C19_SuccessMeansAllBound ==
    \A p \in Procs :
        status[p] = "ok" =>
            /\ role[p] \in {"PRIMARY", "SECONDARY"}
            /\ ports[p] \in memzones
            /\ pktmbuf_pool[p] \in mempools
            /\ clients[p] # NULL
            /\ DOMAIN clients[p].rx_q = 1..num_clients[p]
            /\ \A k \in 1..num_clients[p] : clients[p].rx_q[k] \in rings

\* C19 witness: a primary and a secondary have both returned 0
C19_Witness ==
    \E p, q \in Procs :
        /\ Primary(p) /\ status[p] = "ok"
        /\ Secondary(q) /\ status[q] = "ok"
        /\ num_clients[q] >= 2

\* every queue below p's own num_clients exists
QueuesExistFor(p) ==
    \A k \in 0..(num_clients[p] - 1) : Exists(rings, get_rx_queue_name(k))

\* C20 as stated: a secondary binds queues from its own num_clients and
\* succeeds exactly when the queue of every index below that number exists:
\* it returns 0 only with all of them found, it dies in the queue loop only
\* at the first index whose queue is missing, and with nothing to look up
\* (no index below its num_clients) it does not fail in init_shm_rings.
C20_SecondarySucceedsIffQueuesExist ==
    [][\A p \in Procs :
          Secondary(p) =>
             /\ (At(p, "rings") /\ status'[p] = "ok") =>
                   /\ QueuesExistFor(p)
                   /\ \A k \in 0..(num_clients[p] - 1) :
                         clients[p].rx_q[k + 1] = Lookup(rings, get_rx_queue_name(k))
             /\ (At(p, "rings") /\ status'[p] = "fatal") =>
                   /\ i[p] < num_clients[p]
                   /\ ~Exists(rings, get_rx_queue_name(i[p]))
                   /\ \A k \in 0..(i[p] - 1) : Exists(rings, get_rx_queue_name(k))
             /\ (At(p, "malloc") /\ num_clients[p] = 0 /\ Stepped(p)) =>
                   status'[p] # "fatal"]_vars

====
